---- MODULE Spec2Model ----
(***************************************************************************)
(* A model of textprep: the FlashText keyword matcher (src/flash.rs), the  *)
(* invisible-character classifier and the character transforms             *)
(* (src/unicode.rs, src/fold.rs) and the scrub pipeline (src/lib.rs).      *)
(*                                                                         *)
(* A text is a sequence of Unicode scalar values (natural numbers).  Its   *)
(* UTF-8 encoding is computed, so that byte offsets and character offsets  *)
(* are different things wherever a character is wider than one byte.       *)
(***************************************************************************)
EXTENDS Integers, Sequences, FiniteSets, TLC

VARIABLES
    keywords,       \* FlashText.keywords: pattern -> payload
    pattern_list,   \* FlashText.pattern_list: patterns in insertion order
    matcher,        \* FlashText.matcher: None, or the automaton built
    builds,         \* how many times ensure_built has built an automaton
    added,          \* the add_keyword calls made so far: <<pattern, payload>>
    call            \* the call in progress: its inputs and what it returns

vars == <<keywords, pattern_list, matcher, builds, added, call>>

(***************************************************************************)
(* Bounds of the model.                                                    *)
(***************************************************************************)
MaxTextLen == 3         \* longest text searched by find / find_into
MaxKeywords == 2        \* most add_keyword calls on one matcher

None == [none |-> TRUE]

Min(S) == CHOOSE x \in S : \A y \in S : x <= y
Max(S) == CHOOSE x \in S : \A y \in S : x >= y

\* Every sequence over `alphabet` of length at most n.
Texts(alphabet, n) == UNION {[1..k -> alphabet] : k \in 0..n}

(***************************************************************************)
(* UTF-8: Rust's str is UTF-8, and the automaton works on its bytes.       *)
(***************************************************************************)
Utf8(c) ==
    IF c < 128 THEN <<c>>
    ELSE IF c < 2048 THEN <<192 + (c \div 64), 128 + (c % 64)>>
    ELSE IF c < 65536
        THEN <<224 + (c \div 4096), 128 + ((c \div 64) % 64), 128 + (c % 64)>>
    ELSE <<240 + (c \div 262144), 128 + ((c \div 4096) % 64),
           128 + ((c \div 64) % 64), 128 + (c % 64)>>

RECURSIVE Bytes(_)
Bytes(text) ==
    IF text = <<>> THEN <<>> ELSE Utf8(Head(text)) \o Bytes(Tail(text))

\* str::is_char_boundary, for a byte index i (counted from 0).
is_char_boundary(bytes, i) ==
    \/ i = 0
    \/ i = Len(bytes)
    \/ i < Len(bytes) /\ bytes[i + 1] \notin 128..191

\* text[a..b] is a valid slice; Rust panics otherwise.
slice_ok(bytes, a, b) ==
    a <= b /\ b <= Len(bytes) /\ is_char_boundary(bytes, a) /\ is_char_boundary(bytes, b)

chars_count_len(bytes, a, b) == b - a

\* text[a..b].chars().count(): the lead bytes of the slice.
chars_count(bytes, a, b) ==
    Cardinality({i \in (a + 1)..b : bytes[i] \notin 128..191})

(***************************************************************************)
(* The Aho-Corasick automaton as FlashText configures it: leftmost-longest *)
(* match kind, ASCII case insensitive, over the bytes of the patterns.     *)
(***************************************************************************)
ascii_lower(b) == IF b \in 65..90 THEN b + 32 ELSE b

\* pattern `pat` (bytes) occurs in `hay` (bytes) at byte offset s.
pattern_at(pat, hay, s) ==
    /\ s + Len(pat) <= Len(hay)
    /\ \A j \in 1..Len(pat) : ascii_lower(pat[j]) = ascii_lower(hay[s + j])

build(patterns) == [pats |-> [i \in 1..Len(patterns) |-> Bytes(patterns[i])]]

\* The patterns (by index) that occur in `hay` at byte offset s.
hits(ac, hay, s) == {i \in 1..Len(ac.pats) : pattern_at(ac.pats[i], hay, s)}

\* One search under the leftmost-first match kind: at the leftmost start, the
\* pattern added first.
RECURSIVE try_find_leftmost_first(_, _, _)
try_find_leftmost_first(ac, hay, from) ==
    IF from > Len(hay) THEN None
    ELSE LET h == hits(ac, hay, from)
         IN  IF h = {} THEN try_find_leftmost_first(ac, hay, from + 1)
             ELSE [pattern |-> Min(h) - 1, start |-> from,
                   end |-> from + Len(ac.pats[Min(h)])]

\* One search from byte offset `from`: the leftmost start at which a pattern
\* occurs, there the longest pattern, and of equally long ones the first added.
RECURSIVE try_find(_, _, _)
try_find(ac, hay, from) ==
    IF from > Len(hay) THEN None
    ELSE LET h == hits(ac, hay, from)
         IN  IF h = {} THEN try_find(ac, hay, from + 1)
             ELSE LET longest == Max({Len(ac.pats[i]) : i \in h})
                      p == Min({i \in h : Len(ac.pats[i]) = longest})
                  IN  [pattern |-> p - 1, start |-> from, end |-> from + longest]

\* An iterator over overlapping matches: the next search starts one byte
\* after the start of the match, not at its end.
RECURSIVE find_iter_from_overlapping(_, _, _, _)
find_iter_from_overlapping(ac, hay, from, last_match_end) ==
    LET m == try_find(ac, hay, from)
    IN  IF m = None THEN <<>>
        ELSE <<m>> \o find_iter_from_overlapping(ac, hay, m.start + 1, m.end)

\* AhoCorasick::find_iter: non-overlapping matches; an empty match that ends
\* where the previous match ended is skipped by searching again one byte on.
RECURSIVE find_iter_from(_, _, _, _)
find_iter_from(ac, hay, from, last_match_end) ==
    LET m == try_find(ac, hay, from)
        m2 == IF m # None /\ m.start = m.end /\ m.end = last_match_end
              THEN (IF from + 1 > Len(hay) THEN None ELSE try_find(ac, hay, from + 1))
              ELSE m
    IN  IF m2 = None THEN <<>>
        ELSE <<m2>> \o find_iter_from(ac, hay, m2.end, m2.end)

find_iter(ac, hay) == find_iter_from(ac, hay, 0, -1)

(***************************************************************************)
(* FlashText.                                                              *)
(***************************************************************************)
\* An insertion that keeps the payload of a key already present.
insert_if_absent(map, k, v) ==
    [x \in (DOMAIN map) \cup {k} |-> IF x \in DOMAIN map THEN map[x] ELSE v]

\* HashMap::insert
insert(map, k, v) == [x \in (DOMAIN map) \cup {k} |-> IF x = k THEN v ELSE map[x]]

add_keyword_matcher_kept(m) == m

\* add_keyword: self.matcher = None
add_keyword_matcher(m) == None

\* An automaton that is present is replaced by an empty one.
ensure_built_replaced(m, patterns) == IF m = None THEN build(patterns) ELSE build(<<>>)

\* ensure_built: the automaton is built only when it is absent.
ensure_built(m, patterns) == IF m = None THEN build(patterns) ELSE m

match_start_bytes(last_char, mat) == mat.start

\* The start offset pushed for a match: the running character count.
match_start(last_char, mat) == last_char

\* The body of the `for mat in matcher.find_iter(text)` loop of find_into, from
\* the loop state st = [out, last_byte, last_char, panicked] and one match.
find_step(st, mat, bytes, patterns, kws) ==
    LET pattern == patterns[mat.pattern + 1]
        value == IF pattern \in DOMAIN kws THEN kws[pattern] ELSE pattern
        forward == mat.start >= st.last_byte
        gap_ok == IF forward THEN slice_ok(bytes, st.last_byte, mat.start)
                  ELSE slice_ok(bytes, 0, mat.start)
        last_char == IF forward
                     THEN st.last_char + chars_count(bytes, st.last_byte, mat.start)
                     ELSE chars_count(bytes, 0, mat.start)
        start == match_start(last_char, mat)
        len == chars_count(bytes, mat.start, mat.end)
    IN  IF mat.pattern + 1 > Len(patterns) \/ ~gap_ok
           \/ ~slice_ok(bytes, mat.start, mat.end)
        THEN [st EXCEPT !.panicked = TRUE]
        ELSE [out |-> Append(st.out, [keyword |-> pattern, value |-> value,
                                      start |-> start, end |-> start + len]),
              last_byte |-> mat.end,
              last_char |-> start + len,
              panicked |-> FALSE]

RECURSIVE find_loop(_, _, _, _, _)
find_loop(st, mats, bytes, patterns, kws) ==
    IF mats = <<>> \/ st.panicked THEN st
    ELSE find_loop(find_step(st, Head(mats), bytes, patterns, kws),
                   Tail(mats), bytes, patterns, kws)

clear_kept(out) == out

\* Vec::clear
clear(out) == <<>>

\* find_into(text, out) on a matcher whose automaton is ac (already ensured).
find_into(ac, text, out, patterns, kws) ==
    LET bytes == Bytes(text)
    IN  find_loop([out |-> clear(out), last_byte |-> 0, last_char |-> 0,
                   panicked |-> FALSE],
                  find_iter(ac, bytes), bytes, patterns, kws)

\* find(text): find_into on a new, empty vector, which is returned.
find(ac, text, patterns, kws) == find_into(ac, text, <<>>, patterns, kws)

(***************************************************************************)
(* The inputs of the matcher's operations.                                 *)
(***************************************************************************)
\* 'A', U+00FC (two bytes), U+4EAC (three bytes)
FlashAlphabet == {65, 252, 20140}
\* "", "a", "Aü"
FlashPatterns == {<<>>, <<97>>, <<65, 252>>}
FlashValues == {"v1", "v2"}
FlashTexts == Texts(FlashAlphabet, MaxTextLen)
\* What the caller's vector may hold when it is handed to find_into.
StaleOut == <<[keyword |-> <<97>>, value |-> "v1", start |-> 7, end |-> 8]>>
FlashOuts == {StaleOut}

NoCall == [op |-> "none"]

Init ==
    /\ keywords = <<>>
    /\ pattern_list = <<>>
    /\ matcher = None
    /\ builds = 0
    /\ added = <<>>
    /\ call = NoCall

\* No call is in progress (and none has aborted the program).
Idle == call = NoCall

AddKeyword(kw, val) ==
    /\ Idle
    /\ Len(pattern_list) < MaxKeywords
    /\ keywords' = insert(keywords, kw, val)
    /\ pattern_list' = Append(pattern_list, kw)
    /\ matcher' = add_keyword_matcher(matcher)
    /\ added' = Append(added, <<kw, val>>)
    /\ UNCHANGED <<builds, call>>

\* A search, up to the point where it returns: `op` is find (a fresh vector) or
\* find_into (the caller's vector).  A panic aborts the program.
Search(op, text, out) ==
    LET ac == ensure_built(matcher, pattern_list)
        st == find_into(ac, text, out, pattern_list, keywords)
    IN  /\ Idle
        /\ matcher' = ac
        /\ builds' = IF matcher = None THEN builds + 1 ELSE builds
        /\ UNCHANGED <<keywords, pattern_list, added>>
        /\ call' = IF st.panicked
                   THEN [op |-> "panic", text |-> text]
                   ELSE [op |-> op, text |-> text, out |-> st.out,
                         mats |-> find_iter(ac, Bytes(text))]

FindInto(text, out) == Search("find_into", text, out)

Find(text) == Search("find", text, <<>>)

\* The search returns to its caller.
Return ==
    /\ call.op \in {"find", "find_into"}
    /\ call' = NoCall
    /\ UNCHANGED <<keywords, pattern_list, matcher, builds, added>>

Next ==
    \/ \E kw \in FlashPatterns, val \in FlashValues : AddKeyword(kw, val)
    \/ \E text \in FlashTexts, out \in FlashOuts : FindInto(text, out)
    \/ \E text \in FlashTexts : Find(text)
    \/ Return

Spec == Init /\ [][Next]_vars

(***************************************************************************)
(* src/unicode.rs: the two invisible-character classes.                    *)
(***************************************************************************)
CR == 13
LF == 10
SPACE == 32

\* U+200B | U+200C | U+200D | U+2060 | U+FEFF
is_zero_width(c) == c \in {8203, 8204, 8205, 8288, 65279}

\* U+202A..U+202E | U+2066..U+2069 | U+200E | U+200F | U+061C
is_bidi_control(c) ==
    c \in {8234, 8235, 8236, 8237, 8238, 8294, 8295, 8296, 8297, 8206, 8207, 1564}

not_zero_width(c) == ~is_zero_width(c)
not_bidi_control(c) == ~is_bidi_control(c)

\* A buffer that keeps what it held.
clear_str_stale(out) == out

\* String::clear
clear_str(out) == <<>>

not_zero_width_but_bom(c) == c \notin {8203, 8204, 8205, 8288}

remove_zero_width_keeps_bom(text) == SelectSeq(text, not_zero_width_but_bom)

remove_zero_width(text) == SelectSeq(text, not_zero_width)

remove_zero_width_into(text, out) == clear_str(out) \o SelectSeq(text, not_zero_width)

contains_zero_width(text) == \E i \in 1..Len(text) : is_zero_width(text[i])

enumerate_offset_bytes(text, i) == Len(Bytes(SubSeq(text, 1, i - 1)))

\* The offset that enumerate() gives the i-th character (i counted from 1).
enumerate_offset(text, i) == i - 1

RECURSIVE zero_width_from(_, _, _)
zero_width_from(text, i, acc) ==
    IF i > Len(text) THEN acc
    ELSE zero_width_from(text, i + 1,
                         IF is_zero_width(text[i])
                         THEN Append(acc, <<enumerate_offset(text, i), text[i]>>)
                         ELSE acc)

RECURSIVE bidi_controls_from(_, _, _)
bidi_controls_from(text, i, acc) ==
    IF i > Len(text) THEN acc
    ELSE bidi_controls_from(text, i + 1,
                            IF is_bidi_control(text[i])
                            THEN Append(acc, <<enumerate_offset(text, i), text[i]>>)
                            ELSE acc)

zero_width_with_offsets(text) == zero_width_from(text, 1, <<>>)

\* Only the first bidi control removed.
remove_bidi_controls_first(text) ==
    LET at == {i \in 1..Len(text) : is_bidi_control(text[i])}
    IN  IF at = {} THEN text
        ELSE SubSeq(text, 1, Min(at) - 1) \o SubSeq(text, Min(at) + 1, Len(text))

remove_bidi_controls(text) == SelectSeq(text, not_bidi_control)

not_bidi_control_but_alm(c) == ~is_bidi_control(c) \/ c = 1564

remove_bidi_controls_into_keeps_alm(text, out) ==
    clear_str(out) \o SelectSeq(text, not_bidi_control_but_alm)

remove_bidi_controls_into_append(text, out) == out \o SelectSeq(text, not_bidi_control)

remove_bidi_controls_into(text, out) ==
    clear_str(out) \o SelectSeq(text, not_bidi_control)

contains_bidi_controls(text) == \E i \in 1..Len(text) : is_bidi_control(text[i])

bidi_controls_with_offsets_first(text) ==
    LET all == bidi_controls_from(text, 1, <<>>)
    IN  IF all = <<>> THEN <<>> ELSE <<Head(all)>>

bidi_controls_with_offsets(text) == bidi_controls_from(text, 1, <<>>)

(***************************************************************************)
(* src/unicode.rs: newline normalization and whitespace collapsing.        *)
(***************************************************************************)
\* The ASCII whitespace characters only.
is_whitespace_ascii_only(c) == c \in 9..13 \/ c = 32

\* char::is_whitespace: the White_Space property.
is_whitespace(c) ==
    \/ c \in 9..13
    \/ c \in {32, 133, 160, 5760, 8232, 8233, 8239, 8287, 12288}
    \/ c \in 8192..8202

\* The while-let loop of normalize_newlines, from character i on.
RECURSIVE newlines_from(_, _, _)
newlines_from(text, i, out) ==
    IF i > Len(text) THEN out
    ELSE IF text[i] = CR
         THEN newlines_from(text,
                            IF i < Len(text) /\ text[i + 1] = LF THEN i + 2 ELSE i + 1,
                            Append(out, LF))
         ELSE newlines_from(text, i + 1, Append(out, text[i]))

\* Every CR replaced by LF, a following LF kept.
normalize_newlines_each(text) ==
    [i \in 1..Len(text) |-> IF text[i] = CR THEN LF ELSE text[i]]

normalize_newlines(text) == newlines_from(text, 1, <<>>)

normalize_newlines_into(text, out) == newlines_from(text, 1, clear_str(out))

\* The for loop of collapse_whitespace, from character i on.
RECURSIVE collapse_from(_, _, _, _)
collapse_from(text, i, in_ws, out) ==
    IF i > Len(text) THEN out
    ELSE IF is_whitespace(text[i]) THEN collapse_from(text, i + 1, TRUE, out)
         ELSE collapse_from(text, i + 1, FALSE,
                            Append(IF in_ws /\ out # <<>> THEN Append(out, SPACE) ELSE out,
                                   text[i]))

\* The loop dropping only the first whitespace character of a run: a space is
\* emitted for every other one.
RECURSIVE collapse_from_run_shortened(_, _, _, _)
collapse_from_run_shortened(text, i, in_ws, out) ==
    IF i > Len(text) THEN out
    ELSE IF is_whitespace(text[i])
         THEN collapse_from_run_shortened(text, i + 1, TRUE,
                                          IF in_ws /\ out # <<>> THEN Append(out, SPACE)
                                          ELSE out)
         ELSE collapse_from_run_shortened(text, i + 1, FALSE, Append(out, text[i]))

collapse_whitespace_run_shortened(text) ==
    collapse_from_run_shortened(text, 1, FALSE, <<>>)

collapse_whitespace(text) == collapse_from(text, 1, TRUE, <<>>)

collapse_whitespace_into_append(text, out) == collapse_from(text, 1, TRUE, out)

collapse_whitespace_into(text, out) == collapse_from(text, 1, TRUE, clear_str(out))

(***************************************************************************)
(* The normalizer and the case mapping that unicode.rs and fold.rs call,   *)
(* by the Unicode Character Database entries of the characters the model   *)
(* draws its texts from.  The set is closed under every mapping below:     *)
(*   LF CR SPACE 'U' 'u' U+00A0 U+00A8 U+00DC U+00FC U+0308 U+034F U+05B0  *)
(*   U+05B4 and the seventeen zero-width and bidi-control characters.      *)
(***************************************************************************)
\* Canonical decomposition: U+00DC = U U+0308, U+00FC = u U+0308.
canonical_decomposition(c) ==
    CASE c = 220 -> <<85, 776>>
      [] c = 252 -> <<117, 776>>
      [] OTHER -> <<c>>

\* Compatibility decomposition: U+00A0 = <noBreak> SPACE, U+00A8 = <compat>
\* SPACE U+0308.
compatibility_decomposition(c) ==
    CASE c = 160 -> <<32>>
      [] c = 168 -> <<32, 776>>
      [] OTHER -> canonical_decomposition(c)

\* Canonical_Combining_Class: U+0308 is 230, U+05B0 is 10, U+05B4 is 14; every
\* other character of the set, U+034F included, is a starter.
ccc(c) ==
    CASE c = 776 -> 230
      [] c = 1456 -> 10
      [] c = 1460 -> 14
      [] OTHER -> 0

\* The primary composite of a pair, 0 when there is none.
composite(a, b) ==
    CASE a = 85 /\ b = 776 -> 220
      [] a = 117 /\ b = 776 -> 252
      [] OTHER -> 0

RECURSIVE decompose(_, _)
decompose(text, compat) ==
    IF text = <<>> THEN <<>>
    ELSE (IF compat THEN compatibility_decomposition(Head(text))
          ELSE canonical_decomposition(Head(text)))
         \o decompose(Tail(text), compat)

\* Canonical ordering: adjacent non-starters are swapped until their combining
\* classes do not decrease.
RECURSIVE canonical_order(_)
canonical_order(text) ==
    LET bad == {i \in 1..(Len(text) - 1) :
                  ccc(text[i + 1]) # 0 /\ ccc(text[i]) > ccc(text[i + 1])}
    IN  IF bad = {} THEN text
        ELSE LET i == Min(bad)
             IN  canonical_order([text EXCEPT ![i] = text[i + 1], ![i + 1] = text[i]])

\* Canonical composition, from character i on: `starter` is the position in out
\* of the last starter (0: none) and last_ccc the class of the last character
\* appended after it (-1: none).
RECURSIVE compose_from(_, _, _, _, _)
compose_from(text, i, out, starter, last_ccc) ==
    IF i > Len(text) THEN out
    ELSE LET c == text[i]
             pc == IF starter > 0 /\ (last_ccc = -1 \/ last_ccc < ccc(c))
                   THEN composite(out[starter], c) ELSE 0
         IN  IF pc # 0
             THEN compose_from(text, i + 1, [out EXCEPT ![starter] = pc],
                               starter, last_ccc)
             ELSE IF ccc(c) = 0
             THEN compose_from(text, i + 1, Append(out, c), Len(out) + 1, -1)
             ELSE compose_from(text, i + 1, Append(out, c), starter, ccc(c))

compose(text) == compose_from(text, 1, <<>>, 0, -1)

nfd(text) == canonical_order(decompose(text, FALSE))

nfc(text) == compose(canonical_order(decompose(text, FALSE)))

nfkc(text) == compose(canonical_order(decompose(text, TRUE)))

\* char::to_lowercase: 'U' -> 'u', U+00DC -> U+00FC.
to_lowercase(c) ==
    CASE c = 85 -> 117
      [] c = 220 -> 252
      [] OTHER -> c

(***************************************************************************)
(* src/fold.rs.                                                            *)
(***************************************************************************)
\* U+0300..U+036F | U+1DC0..U+1DFF | U+20D0..U+20FF | U+FE20..U+FE2F
is_combining_mark(c) ==
    c \in 768..879 \/ c \in 7616..7679 \/ c \in 8400..8447 \/ c \in 65056..65071

not_combining_mark(c) == ~is_combining_mark(c)

strip_diacritics(text) == SelectSeq(nfd(text), not_combining_mark)

fold(text) == [i \in 1..Len(text) |-> to_lowercase(text[i])]

\* Simple case folding of the nfkc form; on the model's characters it maps
\* as to_lowercase does.
fold_nfkc_casefold(text) == LET n == nfkc(text) IN [i \in 1..Len(n) |-> to_lowercase(n[i])]

(***************************************************************************)
(* src/lib.rs: the scrub pipeline.                                         *)
(***************************************************************************)
\* ScrubConfig::search_key, with and without the `casefold` feature.
search_key(casefold) ==
    [normalize_newlines |-> TRUE,
     remove_zero_width |-> FALSE,
     remove_bidi_controls |-> TRUE,
     collapse_whitespace |-> TRUE,
     normalization |-> "Nfkc",
     case |-> IF casefold THEN "NfkcCasefold" ELSE "Lower",
     strip_diacritics |-> TRUE]

\* The strict preset without its one difference from search_key.
search_key_strict_invisibles_same(casefold) == search_key(casefold)

search_key_strict_invisibles(casefold) ==
    [search_key(casefold) EXCEPT !.remove_zero_width = TRUE]

\* The search-key policy in place of the default one.
default_config_search_key == search_key(FALSE)

\* ScrubConfig::default
default_config ==
    [normalize_newlines |-> FALSE,
     remove_zero_width |-> FALSE,
     remove_bidi_controls |-> FALSE,
     collapse_whitespace |-> FALSE,
     normalization |-> "Nfc",
     case |-> "Lower",
     strip_diacritics |-> TRUE]

\* Every value of ScrubConfig.
ScrubConfigs ==
    [normalize_newlines : BOOLEAN,
     remove_zero_width : BOOLEAN,
     remove_bidi_controls : BOOLEAN,
     collapse_whitespace : BOOLEAN,
     normalization : {"None", "Nfc", "Nfkc"},
     case : {"None", "Lower", "NfkcCasefold"},
     strip_diacritics : BOOLEAN]

\* The pipeline with whitespace collapsed before the normalization form is
\* applied instead of last.
scrub_with_collapse_early(text, cfg) ==
    LET s1 == IF cfg.normalize_newlines THEN normalize_newlines_into(text, <<>>) ELSE text
        s2 == IF cfg.remove_zero_width THEN remove_zero_width_into(s1, <<>>) ELSE s1
        s3 == IF cfg.remove_bidi_controls THEN remove_bidi_controls_into(s2, <<>>) ELSE s2
        sw == IF cfg.collapse_whitespace THEN collapse_whitespace_into(s3, <<>>) ELSE s3
        s4 == CASE cfg.normalization = "None" -> sw
                [] cfg.normalization = "Nfc" -> nfc(sw)
                [] cfg.normalization = "Nfkc" -> nfkc(sw)
        s5 == CASE cfg.case = "None" -> s4
                [] cfg.case = "Lower" -> fold(s4)
                [] cfg.case = "NfkcCasefold" -> fold_nfkc_casefold(s4)
    IN  IF cfg.strip_diacritics THEN strip_diacritics(s5) ELSE s5

\* The pipeline with newlines normalized after the zero-width and the
\* bidi-control characters are removed instead of first.
scrub_with_newlines_after_removal(text, cfg) ==
    LET s1 == IF cfg.remove_zero_width THEN remove_zero_width_into(text, <<>>) ELSE text
        s2 == IF cfg.remove_bidi_controls THEN remove_bidi_controls_into(s1, <<>>) ELSE s1
        s3 == IF cfg.normalize_newlines THEN normalize_newlines_into(s2, <<>>) ELSE s2
        s4 == CASE cfg.normalization = "None" -> s3
                [] cfg.normalization = "Nfc" -> nfc(s3)
                [] cfg.normalization = "Nfkc" -> nfkc(s3)
        s5 == CASE cfg.case = "None" -> s4
                [] cfg.case = "Lower" -> fold(s4)
                [] cfg.case = "NfkcCasefold" -> fold_nfkc_casefold(s4)
        s6 == IF cfg.strip_diacritics THEN strip_diacritics(s5) ELSE s5
    IN  IF cfg.collapse_whitespace THEN collapse_whitespace_into(s6, <<>>) ELSE s6

\* scrub_with: s is the text so far, buf the reused buffer; each `_into` step
\* writes buf from s and the two are swapped.
scrub_with(text, cfg) ==
    LET p0 == [s |-> text, buf |-> <<>>]
        p1 == IF cfg.normalize_newlines
              THEN [s |-> normalize_newlines_into(p0.s, p0.buf), buf |-> p0.s]
              ELSE p0
        p2 == IF cfg.remove_zero_width
              THEN [s |-> remove_zero_width_into(p1.s, p1.buf), buf |-> p1.s]
              ELSE p1
        p3 == IF cfg.remove_bidi_controls
              THEN [s |-> remove_bidi_controls_into(p2.s, p2.buf), buf |-> p2.s]
              ELSE p2
        s4 == CASE cfg.normalization = "None" -> p3.s
                [] cfg.normalization = "Nfc" -> nfc(p3.s)
                [] cfg.normalization = "Nfkc" -> nfkc(p3.s)
        s5 == CASE cfg.case = "None" -> s4
                [] cfg.case = "Lower" -> fold(s4)
                [] cfg.case = "NfkcCasefold" -> fold_nfkc_casefold(s4)
        s6 == IF cfg.strip_diacritics THEN strip_diacritics(s5) ELSE s5
    IN  IF cfg.collapse_whitespace THEN collapse_whitespace_into(s6, p3.buf) ELSE s6

scrub(text) == scrub_with(text, default_config)

(***************************************************************************)
(* Calls of the pure functions: each specification below draws the inputs  *)
(* of its functions from a bounded set and applies them.                   *)
(***************************************************************************)
MaxScrubLen == 3        \* longest text scrubbed under an arbitrary config
MaxPresetLen == 3       \* longest text scrubbed under a preset
MaxUnicodeLen == 3      \* longest text given to the classifier functions

\* CR, LF, 'U', U+00A8, U+00FC, U+200B (zero width), U+202E (bidi control)
ScrubAlphabet == {CR, LF, 85, 168, 252, 8203, 8238}
ScrubTexts == Texts(ScrubAlphabet, MaxScrubLen)

\* The five zero-width and the twelve bidi-control characters
InvisibleAlphabet ==
    {8203, 8204, 8205, 8288, 65279,
     8234, 8235, 8236, 8237, 8238, 8294, 8295, 8296, 8297, 8206, 8207, 1564}

\* and CR, 'U', U+00A8, U+034F, U+05B0, U+05B4
PresetAlphabet == InvisibleAlphabet \cup {CR, 85, 168, 847, 1456, 1460}
PresetTexts == Texts(PresetAlphabet, MaxPresetLen)
PresetConfigs ==
    {search_key(FALSE), search_key(TRUE),
     search_key_strict_invisibles(FALSE), search_key_strict_invisibles(TRUE)}

\* and SPACE, 'u', U+00FC, and the neighbours U+200A and U+2065 of the classes
UnicodeAlphabet == InvisibleAlphabet \cup {SPACE, 117, 252, 8202, 8293}
UnicodeTexts == Texts(UnicodeAlphabet, MaxUnicodeLen)

\* The state before a pure function is called: its arguments are chosen.
Input(texts, cfgs) ==
    /\ keywords = <<>>
    /\ pattern_list = <<>>
    /\ matcher = None
    /\ builds = 0
    /\ added = <<>>
    /\ \E t \in texts, c \in cfgs : call = [op |-> "input", text |-> t, cfg |-> c]

\* The function `op` is applied to the chosen text and returns `out`.
Call(op, out) ==
    /\ call.op = "input"
    /\ call' = [op |-> op, text |-> call.text, cfg |-> call.cfg, out |-> out]
    /\ UNCHANGED <<keywords, pattern_list, matcher, builds, added>>

ScrubWith == Call("scrub_with", scrub_with(call.text, call.cfg))

Scrub ==
    /\ call.op = "input"
    /\ call' = [op |-> "scrub", text |-> call.text, cfg |-> default_config,
                out |-> scrub(call.text)]
    /\ UNCHANGED <<keywords, pattern_list, matcher, builds, added>>

RemoveZeroWidth == Call("remove_zero_width", remove_zero_width(call.text))
RemoveBidiControls == Call("remove_bidi_controls", remove_bidi_controls(call.text))
ContainsZeroWidth == Call("contains_zero_width", contains_zero_width(call.text))
ContainsBidiControls == Call("contains_bidi_controls", contains_bidi_controls(call.text))
ZeroWidthWithOffsets ==
    Call("zero_width_with_offsets", zero_width_with_offsets(call.text))
BidiControlsWithOffsets ==
    Call("bidi_controls_with_offsets", bidi_controls_with_offsets(call.text))

\* scrub_with under every config.
InitScrub == Input(ScrubTexts, ScrubConfigs)
NextScrub == ScrubWith
SpecScrub == InitScrub /\ [][NextScrub]_vars

\* scrub_with under the presets, and scrub.
InitPreset == Input(PresetTexts, PresetConfigs)
NextPreset == ScrubWith \/ Scrub
SpecPreset == InitPreset /\ [][NextPreset]_vars

\* The classifier functions.
InitUnicode == Input(UnicodeTexts, {default_config})
NextUnicode ==
    \/ RemoveZeroWidth
    \/ RemoveBidiControls
    \/ ContainsZeroWidth
    \/ ContainsBidiControls
    \/ ZeroWidthWithOffsets
    \/ BidiControlsWithOffsets
SpecUnicode == InitUnicode /\ [][NextUnicode]_vars

\* scrub_with under the presets, on texts of zero-width characters and
\* characters that the other steps keep or change.
MaxZeroWidthLen == 3    \* longest text scrubbed to compare the two presets

\* The five zero-width characters, and 'u', SPACE, U+05B0, U+05B4; 'U' and
\* U+202E (changed by the other steps)
ZeroWidthAlphabet == {8203, 8204, 8205, 8288, 65279, 117, SPACE, 1456, 1460, 85, 8238}
ZeroWidthTexts == Texts(ZeroWidthAlphabet, MaxZeroWidthLen)

InitZeroWidth == Input(ZeroWidthTexts, PresetConfigs)
NextZeroWidth == ScrubWith
SpecZeroWidth == InitZeroWidth /\ [][NextZeroWidth]_vars

\* scrub_with under the sixteen configs that enable only local steps.
MaxLocalLen == 4        \* longest text scrubbed under a local config

LocalConfigs ==
    {cfg \in ScrubConfigs :
        cfg.normalization = "None" /\ cfg.case = "None" /\ ~cfg.strip_diacritics}

\* CR, LF, SPACE, U+00A0 (whitespace), 'u', U+200B (zero width), U+202E (bidi
\* control)
LocalAlphabet == {CR, LF, SPACE, 160, 117, 8203, 8238}
LocalTexts == Texts(LocalAlphabet, MaxLocalLen)

InitLocal == Input(LocalTexts, LocalConfigs)
NextLocal == ScrubWith
SpecLocal == InitLocal /\ [][NextLocal]_vars

(***************************************************************************)
(* src/tokenize.rs: tokenize_with_offsets over the word segmentation of     *)
(* UAX #29, for the characters the model draws its texts from:              *)
(*   'a' and U+00FC (ALetter), '.' (MidNumLet), SPACE (WSegSpace) and       *)
(*   U+4EAC (an ideograph: no word-break class, alphabetic).                *)
(***************************************************************************)
word_break(c) ==
    CASE c \in {97, 252} -> "ALetter"
      [] c = 46 -> "MidNumLet"
      [] c = SPACE -> "WSegSpace"
      [] OTHER -> "Other"

\* char::is_alphanumeric
is_alphanumeric(c) == c \in {97, 252, 20140}

\* There is a word boundary between the characters i and i + 1 of text, unless
\* a rule forbids it: WB3d (spaces), WB5 (letters), WB6 and WB7 (a letter, a
\* mid-word punctuation mark, a letter).
word_boundary(text, i) ==
    LET a == word_break(text[i])
        b == word_break(text[i + 1])
    IN  ~ \/ a = "WSegSpace" /\ b = "WSegSpace"
          \/ a = "ALetter" /\ b = "ALetter"
          \/ /\ a = "ALetter" /\ b = "MidNumLet"
             /\ i + 2 <= Len(text) /\ word_break(text[i + 2]) = "ALetter"
          \/ /\ a = "MidNumLet" /\ b = "ALetter"
             /\ i >= 2 /\ word_break(text[i - 1]) = "ALetter"

\* The segments between word boundaries that hold an alphanumeric character,
\* from character offset `from` on, as <<byte index, word>>.
RECURSIVE word_indices_from(_, _)
word_indices_from(text, from) ==
    IF from >= Len(text) THEN <<>>
    ELSE LET ends == {i \in (from + 1)..Len(text) :
                        i = Len(text) \/ word_boundary(text, i)}
             to == Min(ends)
             word == SubSeq(text, from + 1, to)
         IN  (IF \E k \in 1..Len(word) : is_alphanumeric(word[k])
              THEN <<<<Len(Bytes(SubSeq(text, 1, from))), word>>>>
              ELSE <<>>)
             \o word_indices_from(text, to)

\* str::unicode_word_indices
unicode_word_indices(text) == word_indices_from(text, 0)

token_start_bytes(last_char, byte_idx) == byte_idx

\* The start offset of a token: the running character count.
token_start(last_char, byte_idx) == last_char

\* The body of the for loop of tokenize_with_offsets, from the loop state
\* st = [tokens, last_byte, last_char] and one <<byte_idx, word>>.
tokenize_step(st, item, bytes) ==
    LET byte_idx == item[1]
        word == item[2]
        last_char == IF byte_idx >= st.last_byte
                     THEN st.last_char + chars_count(bytes, st.last_byte, byte_idx)
                     ELSE chars_count(bytes, 0, byte_idx)
        start == token_start(last_char, byte_idx)
        len == Len(word)
    IN  [tokens |-> Append(st.tokens, [text |-> word, start |-> start,
                                       end |-> start + len]),
         last_byte |-> byte_idx + Len(Bytes(word)),
         last_char |-> start + len]

RECURSIVE tokenize_loop(_, _, _)
tokenize_loop(st, items, bytes) ==
    IF items = <<>> THEN st
    ELSE tokenize_loop(tokenize_step(st, Head(items), bytes), Tail(items), bytes)

tokenize_with_offsets(text) ==
    tokenize_loop([tokens |-> <<>>, last_byte |-> 0, last_char |-> 0],
                  unicode_word_indices(text), Bytes(text)).tokens

MaxTokenLen == 5        \* longest text tokenized

\* 'a', U+00FC (two bytes), U+4EAC (three bytes), SPACE, '.'
TokenAlphabet == {97, 252, 20140, SPACE, 46}
TokenTexts == Texts(TokenAlphabet, MaxTokenLen)

TokenizeWithOffsets == Call("tokenize_with_offsets", tokenize_with_offsets(call.text))

InitTokenize == Input(TokenTexts, {default_config})
NextTokenize == TokenizeWithOffsets
SpecTokenize == InitTokenize /\ [][NextTokenize]_vars

(***************************************************************************)
(* src/ngram.rs: the n-gram generators.  Each returns [panicked, out].     *)
(***************************************************************************)
\* slice::windows(n) on items, collected: it panics when n is 0.
windows(items, n) ==
    IF n = 0 THEN [panicked |-> TRUE, out |-> <<>>]
    ELSE [panicked |-> FALSE,
          out |-> [i \in 1..(Len(items) - n + 1) |-> SubSeq(items, i, i + n - 1)]]

\* [&str]::join(sep)
RECURSIVE join(_, _)
join(items, sep) ==
    IF items = <<>> THEN <<>>
    ELSE IF Len(items) = 1 THEN items[1]
    ELSE items[1] \o sep \o join(Tail(items), sep)

\* The early return of the three generators: an empty list.
no_ngrams == [panicked |-> FALSE, out |-> <<>>]

\* char_ngrams: each window of n characters is collected into a string.
char_ngrams(text, n) ==
    IF Len(text) < n THEN no_ngrams ELSE windows(text, n)

\* word_ngrams: each window of n words is joined with single spaces.
word_ngrams(words, n) ==
    IF Len(words) < n THEN no_ngrams
    ELSE LET w == windows(words, n)
         IN  [panicked |-> w.panicked,
              out |-> [i \in 1..Len(w.out) |-> join(w.out[i], <<SPACE>>)]]

\* token_ngrams: each window of n words is kept as a vector.
token_ngrams(words, n) ==
    IF n = 0 \/ Len(words) < n THEN no_ngrams ELSE windows(words, n)

MaxNgramLen == 3        \* longest text and longest word list given to a generator
MaxN == 4               \* largest n

\* 'a', U+00FC
NgramAlphabet == {97, 252}
NgramTexts == Texts(NgramAlphabet, MaxNgramLen)
\* "", "a", "ü a"
NgramWords == {<<>>, <<97>>, <<252, SPACE, 97>>}
NgramWordLists == Texts(NgramWords, MaxNgramLen)

\* The arguments of a generator are chosen.
InitNgram ==
    /\ keywords = <<>>
    /\ pattern_list = <<>>
    /\ matcher = None
    /\ builds = 0
    /\ added = <<>>
    /\ \E t \in NgramTexts, w \in NgramWordLists, n \in 0..MaxN :
          call = [op |-> "input", text |-> t, words |-> w, n |-> n]

\* The generator `op` is applied to `items` and returns, or aborts the program.
CallNgram(op, items, r) ==
    /\ call.op = "input"
    /\ call' = IF r.panicked
               THEN [op |-> "panic", fn |-> op, items |-> items, n |-> call.n]
               ELSE [op |-> op, items |-> items, n |-> call.n, out |-> r.out]
    /\ UNCHANGED <<keywords, pattern_list, matcher, builds, added>>

CharNgrams == CallNgram("char_ngrams", call.text, char_ngrams(call.text, call.n))
WordNgrams == CallNgram("word_ngrams", call.words, word_ngrams(call.words, call.n))
TokenNgrams == CallNgram("token_ngrams", call.words, token_ngrams(call.words, call.n))

NextNgram == CharNgrams \/ WordNgrams \/ TokenNgrams
SpecNgram == InitNgram /\ [][NextNgram]_vars

\* The newline and whitespace transforms, and the four `_into` variants on a
\* buffer that holds an earlier result.
MaxCollapseLen == 4     \* longest text given to the newline/whitespace transforms

\* CR, LF, SPACE, U+00A0, U+200A (whitespace); 'u', U+200B (zero width),
\* U+202E (bidi control)
TextAlphabet == {CR, LF, SPACE, 160, 8202, 117, 8203, 8238}
TextInputs == Texts(TextAlphabet, MaxCollapseLen)
\* What the caller's buffer may hold when it is handed to an `_into` function.
StaleBufs == {<<>>, <<117, SPACE>>}

\* An `_into` function is applied to the chosen text and the buffer buf, which
\* holds `out` when it returns.
CallInto(op, buf, out) ==
    /\ call.op = "input"
    /\ call' = [op |-> op, text |-> call.text, cfg |-> call.cfg, buf |-> buf,
                out |-> out]
    /\ UNCHANGED <<keywords, pattern_list, matcher, builds, added>>

NormalizeNewlines == Call("normalize_newlines", normalize_newlines(call.text))
CollapseWhitespace == Call("collapse_whitespace", collapse_whitespace(call.text))
NormalizeNewlinesInto(buf) ==
    CallInto("normalize_newlines_into", buf, normalize_newlines_into(call.text, buf))
CollapseWhitespaceInto(buf) ==
    CallInto("collapse_whitespace_into", buf, collapse_whitespace_into(call.text, buf))
RemoveZeroWidthInto(buf) ==
    CallInto("remove_zero_width_into", buf, remove_zero_width_into(call.text, buf))
RemoveBidiControlsInto(buf) ==
    CallInto("remove_bidi_controls_into", buf, remove_bidi_controls_into(call.text, buf))

InitText == Input(TextInputs, {default_config})
NextText ==
    \/ NormalizeNewlines
    \/ CollapseWhitespace
    \/ RemoveZeroWidth
    \/ RemoveBidiControls
    \/ \E buf \in StaleBufs : NormalizeNewlinesInto(buf)
    \/ \E buf \in StaleBufs : CollapseWhitespaceInto(buf)
    \/ \E buf \in StaleBufs : RemoveZeroWidthInto(buf)
    \/ \E buf \in StaleBufs : RemoveBidiControlsInto(buf)
SpecText == InitText /\ [][NextText]_vars

(***************************************************************************)
(* Properties of the matcher.                                              *)
(***************************************************************************)
Searched == call.op \in {"find", "find_into"}

\* The byte offset at which the k-th character of text starts.
ByteStart(text, k) == Len(Bytes(SubSeq(text, 1, k - 1)))

\* The characters of text that start in the byte range [a, b).
CharsIn(text, a, b) ==
    Cardinality({k \in 1..Len(text) : a <= ByteStart(text, k) /\ ByteStart(text, k) < b})

AsciiFold(text) == [i \in 1..Len(text) |-> ascii_lower(text[i])]

\* C1: every match returned by find_into is in character coordinates: start is
\* the number of characters before the byte offset the automaton matched at,
\* end is start plus the characters of the matched bytes, and the characters of
\* the text in [start, end) are the reported keyword up to ASCII letter case.
C1_CharOffsets ==
    Searched =>
        /\ Len(call.out) = Len(call.mats)
        /\ \A i \in 1..Len(call.out) :
              LET m == call.out[i]
                  mat == call.mats[i]
              IN  /\ m.start = CharsIn(call.text, 0, mat.start)
                  /\ m.end = m.start + CharsIn(call.text, mat.start, mat.end)
                  /\ AsciiFold(SubSeq(call.text, m.start + 1, m.end))
                        = AsciiFold(m.keyword)

\* A non-empty match whose character offset differs from its byte offset.
C1_Witness ==
    /\ Searched
    /\ \E i \in 1..Len(call.out) :
          /\ call.out[i].start < call.mats[i].start
          /\ call.out[i].start < call.out[i].end

\* C2: every match has start <= end <= the character count of the text, and the
\* matches are sorted by start and do not overlap.
C2_WellFormed ==
    Searched =>
        /\ \A i \in 1..Len(call.out) :
              call.out[i].start <= call.out[i].end /\ call.out[i].end <= Len(call.text)
        /\ \A i \in 1..(Len(call.out) - 1) : call.out[i].end <= call.out[i + 1].start

\* Two matches, the second after a character wider than one byte.
C2_Witness ==
    /\ Searched
    /\ Len(call.out) >= 2
    /\ call.out[2].start < call.mats[2].start
    /\ call.out[2].start < call.out[2].end

\* What a freshly built automaton over the registered patterns returns.
FreshSearch(text) ==
    find_into(build(pattern_list), text, <<>>, pattern_list, keywords)

\* C3: a built automaton is the automaton of the patterns registered so far, and
\* every search returns what a freshly built automaton over them returns.
C3_AutomatonCurrent ==
    /\ matcher # None => matcher = build(pattern_list)
    /\ Searched => call.out = FreshSearch(call.text).out
    /\ call.op = "panic" => FreshSearch(call.text).panicked

\* A search built the automaton, a keyword was added, and the next search built
\* it again and found the new keyword.
C3_Witness ==
    /\ Searched
    /\ Len(pattern_list) >= 1
    /\ builds = Len(pattern_list) + 1
    /\ \A j \in 1..(Len(pattern_list) - 1) :
          pattern_list[j] # pattern_list[Len(pattern_list)]
    /\ \E i \in 1..Len(call.out) :
          call.out[i].keyword = pattern_list[Len(pattern_list)]

(***************************************************************************)
(* Properties of the scrub pipeline.                                       *)
(***************************************************************************)
Scrubbed == call.op = "scrub_with"

ZeroWidthSet == {8203, 8204, 8205, 8288, 65279}
BidiControlSet ==
    {8234, 8235, 8236, 8237, 8238, 8294, 8295, 8296, 8297, 8206, 8207, 1564}

Chars(text) == {text[i] : i \in 1..Len(text)}

\* The enabled steps, in the documented order, by the allocating functions.
StepsInOrder(text, cfg) ==
    LET a == IF cfg.normalize_newlines THEN normalize_newlines(text) ELSE text
        b == IF cfg.remove_zero_width THEN remove_zero_width(a) ELSE a
        c == IF cfg.remove_bidi_controls THEN remove_bidi_controls(b) ELSE b
        d == IF cfg.normalization = "Nfc" THEN nfc(c)
             ELSE IF cfg.normalization = "Nfkc" THEN nfkc(c) ELSE c
        e == IF cfg.case = "Lower" THEN fold(d)
             ELSE IF cfg.case = "NfkcCasefold" THEN fold_nfkc_casefold(d) ELSE d
        f == IF cfg.strip_diacritics THEN strip_diacritics(e) ELSE e
    IN  IF cfg.collapse_whitespace THEN collapse_whitespace(f) ELSE f

NothingEnabled(cfg) ==
    /\ ~cfg.normalize_newlines /\ ~cfg.remove_zero_width /\ ~cfg.remove_bidi_controls
    /\ ~cfg.collapse_whitespace /\ ~cfg.strip_diacritics
    /\ cfg.normalization = "None" /\ cfg.case = "None"

\* C4: scrub_with returns the enabled steps applied in the order newlines,
\* zero-width, bidi controls, normalization form, case, diacritics, whitespace
\* collapsing (last); with every step disabled it returns its input.
C4_FixedOrder ==
    Scrubbed =>
        /\ call.out = StepsInOrder(call.text, call.cfg)
        /\ NothingEnabled(call.cfg) => call.out = call.text

\* Every step enabled, on a text that the newline, zero-width and
\* normalization steps all change.
C4_Witness ==
    /\ Scrubbed
    /\ call.cfg = search_key_strict_invisibles(FALSE)
    /\ {CR, 8203, 168} \subseteq Chars(call.text)
    /\ call.out # call.text

\* C5: scrub_with is idempotent under the two presets.
C5_Idempotent ==
    (Scrubbed /\ call.cfg \in PresetConfigs) =>
        scrub_with(call.out, call.cfg) = call.out

\* C6: under search_key the output holds no bidi-control character; under
\* search_key_strict_invisibles it holds no bidi-control and no zero-width
\* character.
C6_NoInvisibles ==
    Scrubbed =>
        /\ call.cfg \in PresetConfigs => Chars(call.out) \cap BidiControlSet = {}
        /\ call.cfg \in {search_key_strict_invisibles(FALSE),
                         search_key_strict_invisibles(TRUE)}
             => Chars(call.out) \cap ZeroWidthSet = {}

\* The strict preset on a text with a bidi control, a zero-width character and
\* a character that stays.
C6_Witness ==
    /\ Scrubbed
    /\ call.cfg = search_key_strict_invisibles(TRUE)
    /\ Chars(call.text) \cap BidiControlSet # {}
    /\ Chars(call.text) \cap ZeroWidthSet # {}
    /\ call.out # <<>>

WhiteSpaceSet == (9..13) \cup {32, 133, 160, 5760, 8232, 8233, 8239, 8287, 12288}
                   \cup (8192..8202)

Trimmed(out) ==
    /\ out # <<>> => out[1] # SPACE /\ out[Len(out)] # SPACE
    /\ \A i \in 1..(Len(out) - 1) : ~(out[i] = SPACE /\ out[i + 1] = SPACE)
    /\ Chars(out) \cap WhiteSpaceSet \subseteq {SPACE}

\* C7: with collapse_whitespace enabled the output has no leading or trailing
\* space, no two adjacent spaces and no whitespace but the ASCII space.
C7_Collapsed == (Scrubbed /\ call.cfg.collapse_whitespace) => Trimmed(call.out)

\* A text without whitespace whose normalization introduces a space, which is
\* kept between two words.
C7_Witness ==
    /\ Scrubbed
    /\ call.cfg.collapse_whitespace
    /\ Chars(call.text) \cap WhiteSpaceSet = {}
    /\ SPACE \in Chars(call.out)

(***************************************************************************)
(* Properties of the classifier.                                           *)
(***************************************************************************)
\* The positions of text (from 1) whose character is not in class.
KeptAt(text, class) == {i \in 1..Len(text) : text[i] \notin class}

\* out is text with exactly the characters of class deleted.
DeletionOf(out, text, class) ==
    /\ Len(out) = Cardinality(KeptAt(text, class))
    /\ \A i \in KeptAt(text, class) :
          out[Cardinality({k \in KeptAt(text, class) : k <= i})] = text[i]

\* C8: remove_zero_width and remove_bidi_controls return the characters of the
\* input that are not in the class, unaltered and in order.
C8_ExactDeletion ==
    /\ call.op = "remove_zero_width" => DeletionOf(call.out, call.text, ZeroWidthSet)
    /\ call.op = "remove_bidi_controls" => DeletionOf(call.out, call.text, BidiControlSet)

\* A removal that deletes one character and keeps another.
C8_Witness ==
    /\ call.op = "remove_zero_width"
    /\ Len(call.text) = 2
    /\ Len(call.out) = 1

\* C9: the characters kept by remove_<class> and the entries of
\* <class>_with_offsets add up to the characters of the input.
C9_CountsAddUp ==
    /\ call.op = "remove_zero_width" =>
          Len(call.out) + Len(zero_width_with_offsets(call.text)) = Len(call.text)
    /\ call.op = "remove_bidi_controls" =>
          Len(call.out) + Len(bidi_controls_with_offsets(call.text)) = Len(call.text)

\* A removal of bidi controls from a text that holds two of them.
C9_Witness ==
    /\ call.op = "remove_bidi_controls"
    /\ Len(call.text) = 2
    /\ call.out = <<>>

\* out lists the occurrences of class in text by character index, in order.
OccurrencesOf(out, text, class) ==
    /\ \A j \in 1..Len(out) :
          /\ out[j][1] + 1 \in 1..Len(text)
          /\ out[j][2] = text[out[j][1] + 1]
          /\ out[j][2] \in class
    /\ \A j \in 1..(Len(out) - 1) : out[j][1] < out[j + 1][1]
    /\ {out[j][1] + 1 : j \in 1..Len(out)} = (1..Len(text)) \ KeptAt(text, class)

\* C10: <class>_with_offsets lists exactly the occurrences of the class, in
\* increasing order, by character index; contains_<class> is true iff that list
\* is not empty.
C10_Offsets ==
    /\ call.op = "zero_width_with_offsets" =>
          OccurrencesOf(call.out, call.text, ZeroWidthSet)
    /\ call.op = "bidi_controls_with_offsets" =>
          OccurrencesOf(call.out, call.text, BidiControlSet)
    /\ call.op = "contains_zero_width" =>
          (call.out <=> zero_width_with_offsets(call.text) # <<>>)
    /\ call.op = "contains_bidi_controls" =>
          (call.out <=> bidi_controls_with_offsets(call.text) # <<>>)

\* An occurrence after a two-byte character: its character index is 1, its
\* byte index 2.
C10_Witness ==
    /\ call.op = "zero_width_with_offsets"
    /\ call.text = <<252, 8205>>
    /\ call.out = <<<<1, 8205>>>>

(***************************************************************************)
(* Properties of the newline and whitespace transforms.                    *)
(***************************************************************************)
\* The k-th smallest element of a set of positions.
Nth(S, k) == CHOOSE i \in S : Cardinality({j \in S : j <= i}) = k

\* C11: collapse_whitespace(s) has no leading or trailing whitespace, no two
\* adjacent whitespace characters and no whitespace but the ASCII space; the
\* non-whitespace characters of s appear in it unchanged and in order, with
\* exactly one space between two consecutive ones iff whitespace separated them
\* in s (and nothing between them otherwise).
C11_CollapseExact ==
    call.op = "collapse_whitespace" =>
        LET P == KeptAt(call.text, WhiteSpaceSet)
            n == Cardinality(P)
            sep(k) == Nth(P, k + 1) > Nth(P, k) + 1
            at(k) == k + Cardinality({j \in 1..(k - 1) : sep(j)})
        IN  /\ Trimmed(call.out)
            /\ Len(call.out) = IF n = 0 THEN 0 ELSE at(n)
            /\ \A k \in 1..n : call.out[at(k)] = call.text[Nth(P, k)]
            /\ \A k \in 1..(n - 1) : sep(k) <=> call.out[at(k) + 1] = SPACE

\* Two non-ASCII whitespace characters between 'u' and U+200B, which is not
\* whitespace: one space separates the two in the result.
C11_Witness ==
    /\ call.op = "collapse_whitespace"
    /\ call.text = <<117, 160, 8202, 8203>>
    /\ call.out = <<117, SPACE, 8203>>

\* C12: normalize_newlines drops the LF of every CR LF pair, turns every CR
\* into LF and passes every other character through, in order; the result
\* holds no CR.
C12_Newlines ==
    call.op = "normalize_newlines" =>
        LET t == call.text
            kept == {i \in 1..Len(t) : ~(t[i] = LF /\ i > 1 /\ t[i - 1] = CR)}
        IN  /\ Len(call.out) = Cardinality(kept)
            /\ \A k \in 1..Cardinality(kept) :
                  call.out[k] = IF t[Nth(kept, k)] = CR THEN LF ELSE t[Nth(kept, k)]
            /\ CR \notin Chars(call.out)

\* A lone CR, then a CR LF pair, then another character.
C12_Witness ==
    /\ call.op = "normalize_newlines"
    /\ call.text = <<CR, CR, LF, 117>>
    /\ call.out = <<LF, LF, 117>>

\* C14: each `_into` variant leaves in the caller's buffer the result of the
\* allocating variant on the same text, whatever the buffer held before.
C14_IntoSame ==
    /\ call.op = "normalize_newlines_into" => call.out = normalize_newlines(call.text)
    /\ call.op = "collapse_whitespace_into" => call.out = collapse_whitespace(call.text)
    /\ call.op = "remove_zero_width_into" => call.out = remove_zero_width(call.text)
    /\ call.op = "remove_bidi_controls_into" => call.out = remove_bidi_controls(call.text)

\* A buffer that held an earlier result is overwritten with a result that is
\* neither empty nor the input.
C14_Witness ==
    /\ call.op = "collapse_whitespace_into"
    /\ call.buf = <<117, SPACE>>
    /\ call.out # <<>>
    /\ call.out # call.text

\* C19: remove_zero_width and remove_bidi_controls are idempotent: applied to
\* their own result they return it unchanged.
C19_RemoveIdempotent ==
    /\ call.op = "remove_zero_width" => remove_zero_width(call.out) = call.out
    /\ call.op = "remove_bidi_controls" => remove_bidi_controls(call.out) = call.out

\* Two bidi controls were removed around a character that stays.
C19_Witness ==
    /\ call.op = "remove_bidi_controls"
    /\ Len(call.text) = 3
    /\ call.text[1] \in BidiControlSet
    /\ call.text[3] \in BidiControlSet
    /\ call.out = <<call.text[2]>>

\* C20: collapse_whitespace is idempotent: applied to its own result it
\* returns it unchanged.
C20_CollapseIdempotent ==
    call.op = "collapse_whitespace" => collapse_whitespace(call.out) = call.out

\* A run of two whitespace characters collapsed to the one space that the
\* second application has to keep.
C20_Witness ==
    /\ call.op = "collapse_whitespace"
    /\ call.text = <<117, LF, 160, 117>>
    /\ call.out = <<117, SPACE, 117>>

(***************************************************************************)
(* More properties of the matcher.                                         *)
(***************************************************************************)
\* C13: find_into(text, out) leaves in out the match sequence that find(text)
\* returns on the same matcher, and no element that out held before the call.
C13_FindSame ==
    call.op = "find_into" =>
        /\ call.out = find(matcher, call.text, pattern_list, keywords).out
        /\ \A i \in 1..Len(call.out), j \in 1..Len(StaleOut) : call.out[i] # StaleOut[j]

\* find_into on a vector that held a match returned two matches.
C13_Witness ==
    /\ call.op = "find_into"
    /\ \E out \in FlashOuts : out # <<>>
    /\ Len(call.out) = 2
    /\ call.out[1].start < call.out[1].end

\* The registered patterns.
Registered == Chars(pattern_list)

\* Pattern p occurs in text at character offset s, up to ASCII letter case.
OccursAt(p, text, s) ==
    /\ s + Len(p) <= Len(text)
    /\ AsciiFold(SubSeq(text, s + 1, s + Len(p))) = AsciiFold(p)

\* Every match of out is, scanning from the end of the match before it (0 for
\* the first), the longest registered pattern at the earliest start where one
\* occurs.  With skip_empty, an occurrence of the empty pattern at exactly the
\* end of the match before does not count as a candidate.
LeftmostLongest(out, text, skip_empty) ==
    \A i \in 1..Len(out) :
        LET m == out[i]
            prev == IF i = 1 THEN 0 ELSE out[i - 1].end
        IN  /\ prev <= m.start
            /\ \A s \in prev..(m.start - 1), p \in Registered :
                  OccursAt(p, text, s) => (skip_empty /\ i > 1 /\ p = <<>> /\ s = prev)
            /\ m.keyword \in Registered
            /\ OccursAt(m.keyword, text, m.start)
            /\ m.end = m.start + Len(m.keyword)
            /\ \A p \in Registered :
                  OccursAt(p, text, m.start) => Len(p) <= Len(m.keyword)

\* C15 as stated: every reported match is the longest registered pattern at the
\* earliest start, at or after the end of the previous match, where a
\* registered pattern occurs.
C15_EarliestStart == Searched => LeftmostLongest(call.out, call.text, FALSE)

\* C15, amended: the same, where an occurrence of the empty pattern at exactly
\* the end of the previous match is not a candidate (the iterator never
\* reports it and resumes one byte later).
C15_LeftmostLongest == Searched => LeftmostLongest(call.out, call.text, TRUE)

\* A shorter non-empty pattern occurs at the start of a reported match.
C15_Witness ==
    /\ Searched
    /\ \E i \in 1..Len(call.out), p \in Registered :
          /\ p # <<>>
          /\ OccursAt(p, call.text, call.out[i].start)
          /\ Len(p) < Len(call.out[i].keyword)

\* A search was called: it returned or it aborted.
SearchCalled == call.op \in {"find", "find_into", "panic"}

\* A-Z mapped to a-z, every other character left as it is.
LowerAZ(text) == [i \in 1..Len(text) |-> IF text[i] \in 65..90 THEN text[i] + 32 ELSE text[i]]

\* Pattern p occurs somewhere in text, up to the case of ASCII letters.
VariantIn(p, text) ==
    \E s \in 0..(Len(text) - Len(p)) :
        LowerAZ(SubSeq(text, s + 1, s + Len(p))) = LowerAZ(p)

\* C16: a search reports a span for a pattern only if the two are equal after
\* mapping A-Z to a-z, and reports at least one match whenever some registered
\* pattern so occurs in the text; when one keyword is the only one registered,
\* a search of any text containing an ASCII-case variant of it returns at
\* least one match reporting that keyword.
C16_AsciiCaseOnly ==
    /\ Searched =>
          \A i \in 1..Len(call.out) :
              LowerAZ(SubSeq(call.text, call.out[i].start + 1, call.out[i].end))
                  = LowerAZ(call.out[i].keyword)
    /\ SearchCalled =>
          \A p \in Registered :
              VariantIn(p, call.text) =>
                  /\ Searched
                  /\ call.out # <<>>
                  /\ Registered = {p} => \E i \in 1..Len(call.out) : call.out[i].keyword = p

\* The payload given by the most recent add_keyword call for pattern p.
LastPayload(p) ==
    added[Max({i \in 1..Len(added) : added[i][1] = p})][2]

\* The patterns of a list, each once, in the order of their first entry.
RECURSIVE Distinct(_)
Distinct(patterns) ==
    IF patterns = <<>> THEN <<>>
    ELSE LET front == Distinct(SubSeq(patterns, 1, Len(patterns) - 1))
             last == patterns[Len(patterns)]
         IN  IF last \in Chars(front) THEN front ELSE Append(front, last)

\* C17: after any sequence of add_keyword calls the payload kept for a pattern
\* is the one of the most recent call for it; every reported match carries a
\* registered pattern as keyword and that payload as value; no match is
\* reported twice, and the matches are those of a matcher in which every
\* pattern was registered once.
C17_Overwrite ==
    /\ Registered = {added[i][1] : i \in 1..Len(added)}
    /\ DOMAIN keywords = Registered
    /\ \A p \in Registered : keywords[p] = LastPayload(p)
    /\ Searched =>
          /\ \A i \in 1..Len(call.out) :
                /\ call.out[i].keyword \in Registered
                /\ call.out[i].value = LastPayload(call.out[i].keyword)
          /\ \A i, j \in 1..Len(call.out) : i < j => call.out[i].start < call.out[j].start
          /\ call.out = find(build(Distinct(pattern_list)), call.text,
                             Distinct(pattern_list), keywords).out

\* A pattern was registered twice, with two payloads, and a search reported a
\* non-empty match for it.
C17_Witness ==
    /\ Searched
    /\ \E i, j \in 1..Len(added) :
          /\ i < j
          /\ added[i][1] = added[j][1]
          /\ added[i][2] # added[j][2]
          /\ \E k \in 1..Len(call.out) :
                /\ call.out[k].keyword = added[i][1]
                /\ call.out[k].start < call.out[k].end

\* C18: no search aborts, whatever patterns are registered; on a matcher with
\* no registered keyword a search builds the automaton of no patterns and
\* returns the empty sequence.
C18_NeverAborts ==
    SearchCalled =>
        /\ call.op # "panic"
        /\ pattern_list = <<>> => (call.out = <<>> /\ matcher = build(<<>>))

(***************************************************************************)
(* More properties of the scrub pipeline.                                  *)
(***************************************************************************)
\* The text without its zero-width characters.
WithoutZeroWidth(text) ==
    [k \in 1..Cardinality(KeptAt(text, ZeroWidthSet)) |->
        text[Nth(KeptAt(text, ZeroWidthSet), k)]]

\* The config with the zero-width step off: "the other steps".
OtherSteps(cfg) == [cfg EXCEPT !.remove_zero_width = FALSE]

\* search_key leaves the zero-width step off, the strict preset differs from
\* it in that field only; the output is the input where the step is off, and
\* the input without its zero-width characters where it is on.
PresetsDifferByZeroWidth(cfg, text, out) ==
    /\ \A casefold \in BOOLEAN :
          /\ ~search_key(casefold).remove_zero_width
          /\ search_key_strict_invisibles(casefold).remove_zero_width
          /\ OtherSteps(search_key_strict_invisibles(casefold)) = search_key(casefold)
    /\ ~cfg.remove_zero_width => out = text
    /\ cfg.remove_zero_width => out = WithoutZeroWidth(text)

\* C21 as stated: for an input made of zero-width characters and of characters
\* each of which the other steps leave unchanged, search_key returns the input
\* and search_key_strict_invisibles the input without its zero-width
\* characters.
C21_EachCharacterUnchanged ==
    (/\ Scrubbed
     /\ call.cfg \in PresetConfigs
     /\ \A i \in 1..Len(call.text) :
           \/ call.text[i] \in ZeroWidthSet
           \/ scrub_with(<<call.text[i]>>, OtherSteps(call.cfg)) = <<call.text[i]>>)
    => PresetsDifferByZeroWidth(call.cfg, call.text, call.out)

\* C21, amended: the same for an input whose characters other than the
\* zero-width ones form, in order, a text that the other steps leave unchanged.
C21_ZeroWidthOnly ==
    (/\ Scrubbed
     /\ call.cfg \in PresetConfigs
     /\ scrub_with(WithoutZeroWidth(call.text), OtherSteps(call.cfg))
           = WithoutZeroWidth(call.text))
    => PresetsDifferByZeroWidth(call.cfg, call.text, call.out)

\* The strict preset deleted a zero-width character between two characters
\* that stay.
C21_Witness ==
    /\ Scrubbed
    /\ call.cfg = search_key_strict_invisibles(FALSE)
    /\ call.text = <<117, 8205, 1460>>
    /\ call.out = <<117, 1460>>

\* The characters of text that are in class, in order.
Only(text, class) ==
    LET at == {i \in 1..Len(text) : text[i] \in class}
    IN  [k \in 1..Cardinality(at) |-> text[Nth(at, k)]]

\* C22: scrub(text) is scrub_with under the config with NFC, lowercasing and
\* diacritic stripping on and the four other steps off, that is the three
\* steps in that order; the whitespace (CR included), zero-width and
\* bidi-control characters of the input are all kept.
C22_ScrubDefault ==
    call.op = "scrub" =>
        /\ call.out = scrub_with(call.text,
                                 [normalize_newlines |-> FALSE,
                                  remove_zero_width |-> FALSE,
                                  remove_bidi_controls |-> FALSE,
                                  collapse_whitespace |-> FALSE,
                                  normalization |-> "Nfc",
                                  case |-> "Lower",
                                  strip_diacritics |-> TRUE])
        /\ call.out = strip_diacritics(fold(nfc(call.text)))
        /\ Only(call.out, WhiteSpaceSet \cup ZeroWidthSet \cup BidiControlSet)
              = Only(call.text, WhiteSpaceSet \cup ZeroWidthSet \cup BidiControlSet)

\* scrub lowercased a letter and kept a zero-width and a bidi-control
\* character.
C22_Witness ==
    /\ call.op = "scrub"
    /\ call.text = <<85, 8203, 8238>>
    /\ call.out = <<117, 8203, 8238>>

(***************************************************************************)
(* Properties of the tokenizer.                                            *)
(***************************************************************************)
\* C24: every token of tokenize_with_offsets has a non-empty text, has
\* start <= end <= the character count of the input, and its text is the
\* characters of the input in [start, end); consecutive tokens do not overlap.
C24_TokenSpans ==
    call.op = "tokenize_with_offsets" =>
        /\ \A i \in 1..Len(call.out) :
              LET t == call.out[i]
              IN  /\ t.text # <<>>
                  /\ t.start <= t.end
                  /\ t.end <= Len(call.text)
                  /\ t.text = SubSeq(call.text, t.start + 1, t.end)
        /\ \A i \in 1..(Len(call.out) - 1) : call.out[i].end <= call.out[i + 1].start

\* A second token, of two characters, after a character wider than one byte.
C24_Witness ==
    /\ call.op = "tokenize_with_offsets"
    /\ Len(call.out) >= 2
    /\ call.out[2].start < ByteStart(call.text, call.out[2].start + 1)
    /\ call.out[2].end >= call.out[2].start + 2

(***************************************************************************)
(* Properties of the matcher's state and of its offset counting.           *)
(***************************************************************************)
\* The byte end of the match before the i-th one (0 for the first).
PrevByteEnd(mats, i) == IF i = 1 THEN 0 ELSE mats[i - 1].end

\* C25: in every search (also one that aborts) the byte start of each match is
\* at or after the byte end of the match before it (0 for the first) and not
\* after its own end, so find_into always counts forward; each character of
\* the text lies in at most one counted gap and in at most one counted match.
C25_Monotonic ==
    SearchCalled =>
        LET mats == find_iter(matcher, Bytes(call.text))
            InGap(k, i) == /\ PrevByteEnd(mats, i) <= ByteStart(call.text, k)
                           /\ ByteStart(call.text, k) < mats[i].start
            InMatch(k, i) == /\ mats[i].start <= ByteStart(call.text, k)
                             /\ ByteStart(call.text, k) < mats[i].end
        IN  /\ Searched => call.mats = mats
            /\ \A i \in 1..Len(mats) :
                  PrevByteEnd(mats, i) <= mats[i].start /\ mats[i].start <= mats[i].end
            /\ \A k \in 1..Len(call.text) :
                  /\ Cardinality({i \in 1..Len(mats) : InGap(k, i)}) <= 1
                  /\ Cardinality({i \in 1..Len(mats) : InMatch(k, i)}) <= 1

\* Two non-empty matches with a character of three bytes in the gap between
\* them.
C25_Witness ==
    /\ Searched
    /\ Len(call.mats) = 2
    /\ call.mats[1].start < call.mats[1].end
    /\ call.mats[2].start = call.mats[1].end + 3
    /\ call.mats[2].start < call.mats[2].end

\* C26: the pattern list holds one entry per distinct registered pattern: its
\* length is the number of keys of the pattern-to-payload map, its entries are
\* those keys, and no pattern has two indices.
C26_OneEntryPerPattern ==
    /\ Len(pattern_list) = Cardinality(DOMAIN keywords)
    /\ Chars(pattern_list) = DOMAIN keywords
    /\ \A i, j \in 1..Len(pattern_list) : pattern_list[i] = pattern_list[j] => i = j

(***************************************************************************)
(* Properties of the local steps of the scrub pipeline                     *)
(***************************************************************************)
\* C27: under each of the sixteen configs with normalization None, case None
\* and no diacritic stripping, scrubbing the output of scrub_with again gives
\* the same output.
C27_LocalIdempotent ==
    (Scrubbed /\ call.cfg \in LocalConfigs) =>
        scrub_with(call.out, call.cfg) = call.out

\* All four steps are on and each of them has changed the text: CR LF, U+200B,
\* U+202E, 'u' becomes 'u'.
C27_Witness ==
    /\ Scrubbed
    /\ Cardinality(LocalConfigs) = 16
    /\ call.cfg.normalize_newlines /\ call.cfg.remove_zero_width
    /\ call.cfg.remove_bidi_controls /\ call.cfg.collapse_whitespace
    /\ call.cfg \in LocalConfigs
    /\ call.text = <<CR, 8203, 8238, 117>>
    /\ call.out = <<117>>

\* The number of positions of text holding c.
Count(text, c) == Cardinality({i \in 1..Len(text) : text[i] = c})

\* The CRLF pairs of text: an LF directly after a CR.
PairedLF(text) == {i \in 2..Len(text) : text[i] = LF /\ text[i - 1] = CR}

\* C28: newlines are normalized on the text as given, before zero-width and
\* bidi-control characters are removed.  With normalize_newlines on, whitespace
\* collapsing off and no normalization form, case mapping or diacritic
\* stripping, the output holds no CR and one LF for every CR and for every LF
\* that does not directly follow a CR in the input: a CR and an LF with only
\* removed characters between them give two LFs.  In particular CR, U+200B, LF
\* scrubs to LF, LF when zero-width characters are removed.
C28_NewlinesFirst ==
    (/\ Scrubbed /\ call.cfg \in LocalConfigs
     /\ call.cfg.normalize_newlines /\ ~call.cfg.collapse_whitespace) =>
        /\ CR \notin Chars(call.out)
        /\ Count(call.out, LF) =
               Count(call.text, CR) + Count(call.text, LF)
                 - Cardinality(PairedLF(call.text))
        /\ (call.cfg.remove_zero_width /\ call.text = <<CR, 8203, LF>>) =>
               call.out = <<LF, LF>>

C28_Witness ==
    /\ Scrubbed /\ call.cfg \in LocalConfigs
    /\ call.cfg.normalize_newlines /\ call.cfg.remove_zero_width
    /\ ~call.cfg.collapse_whitespace
    /\ call.text = <<CR, 8203, LF>>
    /\ call.out = <<LF, LF>>

(***************************************************************************)
(* Properties of what a search changes                                     *)
(***************************************************************************)
\* A step in which find or find_into runs.
SearchStep == call.op = "none" /\ call'.op \in {"find", "find_into", "panic"}

\* What a search of `text` returns from the state a step leads to.
SearchAgain(text, out) ==
    find_into(ensure_built(matcher', pattern_list'), text, out,
              pattern_list', keywords').out

\* C29: a search changes nothing in the matcher except building the automaton
\* when it is absent.  In a step of find or find_into the patterns, their order
\* and their payloads stay as they are, an automaton that is present stays as
\* it is and an absent one is built; the automaton becomes absent only in
\* add_keyword, so it is built at most once between two add_keyword calls; and
\* a search of the same text from the state the search leaves returns the same
\* matches.
C29_SearchFrame ==
    [][
        /\ SearchStep =>
               /\ keywords' = keywords /\ pattern_list' = pattern_list
               /\ added' = added
               /\ (matcher # None) => (matcher' = matcher /\ builds' = builds)
               /\ (matcher = None) => (matcher' # None /\ builds' = builds + 1)
               /\ (call'.op # "panic") =>
                      SearchAgain(call'.text,
                                  IF call'.op = "find" THEN <<>> ELSE StaleOut)
                        = call'.out
        /\ (builds' # builds) => SearchStep
        /\ (matcher # None /\ matcher' = None) => (Len(added') = Len(added) + 1)
        /\ builds' <= Len(added') + 1
    ]_vars

\* Two add_keyword calls, each followed by a search that built the automaton;
\* the last search has reported a match.
C29_Witness ==
    /\ Searched /\ call.out # <<>> /\ call.out[1].start < call.out[1].end
    /\ Len(added) = 2 /\ builds = 2 /\ matcher # None
    /\ Len(pattern_list) = 2 /\ Cardinality(DOMAIN keywords) = 2

(***************************************************************************)
(* Properties of the n-gram generators                                     *)
(***************************************************************************)
NgramReturned == call.op \in {"char_ngrams", "word_ngrams", "token_ngrams"}

\* The window of n items of the call that starts at item i, as the generator
\* that was called reports it.
RECURSIVE SpaceJoined(_)
SpaceJoined(items) ==
    IF Len(items) <= 1 THEN (IF items = <<>> THEN <<>> ELSE items[1])
    ELSE SpaceJoined(SubSeq(items, 1, Len(items) - 1)) \o <<SPACE>> \o items[Len(items)]

Window(i) ==
    LET w == [j \in 1..call.n |-> call.items[i + j - 1]]
    IN  IF call.op = "word_ngrams" THEN SpaceJoined(w) ELSE w

\* The list the generators are to return for the call's items and n.
ExpectedNgrams ==
    IF call.n = 0 \/ Len(call.items) < call.n THEN <<>>
    ELSE [i \in 1..(Len(call.items) - call.n + 1) |-> Window(i)]

\* C30: char_ngrams, word_ngrams and token_ngrams never abort, for any input
\* and any n >= 0: they return the empty list when n = 0 or the input has
\* fewer than n items, and otherwise its length - n + 1 windows of n items, in
\* order.
C30_Total ==
    /\ call.op # "panic"
    /\ NgramReturned => call.out = ExpectedNgrams

====
